---------------------------- MODULE Spec2Model ----------------------------
(***************************************************************************)
(* A model of the evolutionary computing framework (evo.py) together with  *)
(* the TA-to-lab assignment plug-ins (assignments.py) that main() registers *)
(* with it.  Engine instances share one checkpoint file (solutions.dat)    *)
(* and one constraint file (constraints.json).                             *)
(***************************************************************************)
EXTENDS Integers, Sequences, FiniteSets, TLC

VARIABLES
    pop,        \* pop[e]: the population of engine e, evaluation -> solution
    pc,         \* pc[e]: where engine e stands in its setup / evolve() call
    it,         \* it[e]: the loop variable i of evolve()
    args,       \* args[e]: the arguments n, dom, status, sync of evolve()
    lastRead,   \* lastRead[e]: what the last open/pickle.load of the checkpoint met
    lastLoad,   \* lastLoad[e]: the dict `loaded` of this sync step (pickle.load)
    alone,      \* alone[e]: no other engine's sync step since e's sync step began
    err,        \* err[e]: the exception that ended engine e's run, or "none"
    file,       \* the checkpoint file solutions.dat
    cons,       \* the constraint file constraints.json
    probe       \* argument and result of a function applied on its own

vars == <<pop, pc, it, args, lastRead, lastLoad, alone, err, file, cons, probe>>

--------------------------------------------------------------------------
(* Bounds of the model *)

MaxSeeds == 1
MaxIter == 2
MaxInterval == 2
MaxLimit == 1
MaxScore == 1

--------------------------------------------------------------------------
(* The data of tas.csv and sections.csv, at a reduced size *)

max_assigned == <<1, 2>>
prefs == << <<"P", "U">>, <<"W", "P">> >>
daytime == <<"R 1145-125", "R 1145-125">>
min_ta == <<1, 1>>

NumTAs == Len(max_assigned)
NumSections == Len(daytime)
TAs == 1..NumTAs
Sections == 1..NumSections

Solutions == [TAs -> [Sections -> {0, 1}]]
Zeros == [r \in TAs |-> [c \in Sections |-> 0]]
Ones == [r \in TAs |-> [c \in Sections |-> 1]]
PrefIs(letter) == [r \in TAs |-> [c \in Sections |-> IF prefs[r][c] = letter THEN 1 ELSE 0]]
PrefIsNot(letter) == [r \in TAs |-> [c \in Sections |-> IF prefs[r][c] # letter THEN 1 ELSE 0]]

\* main(): the seeds s11..s15 (s1..s10 are random matrices)
Seeds == {Zeros, Ones, PrefIs("P"), PrefIsNot("U"), PrefIsNot("W")}

RECURSIVE SumOver(_, _)
SumOver(f, S) ==
    IF S = {} THEN 0
    ELSE LET x == CHOOSE y \in S : TRUE IN f[x] + SumOver(f, S \ {x})

Clip(x) == IF x < 0 THEN 0 ELSE x

--------------------------------------------------------------------------
(* Objective functions of assignments.py *)

overallocation(sol) ==
    LET arr == [r \in TAs |-> SumOver(sol[r], Sections) - max_assigned[r]]
    IN  SumOver([r \in TAs |-> Clip(arr[r])], TAs)

\* arr[row>0]: the columns of `row` that hold an assignment
Assigned(row) == {c \in DOMAIN row : row[c] > 0}

\* len(arr[row>0]) != len(set(arr[row>0])), arr the daytimes of the sections
RowConflict(row, arr) ==
    Cardinality(Assigned(row)) # Cardinality({arr[c] : c \in Assigned(row)})

\* conflicts counting every repeated daytime of a row
conflicts_per_clash(sol, arr) ==
    SumOver([r \in DOMAIN sol |->
               Cardinality(Assigned(sol[r])) - Cardinality({arr[c] : c \in Assigned(sol[r])})],
            DOMAIN sol)

\* conflicts(sol) for the section daytimes arr
conflicts_at(sol, arr) == Cardinality({r \in DOMAIN sol : RowConflict(sol[r], arr)})

conflicts(sol) == conflicts_at(sol, daytime)

undersupport(sol) ==
    LET arr == [c \in Sections |->
                  min_ta[c] - SumOver([r \in TAs |-> sol[r][c]], TAs)]
    IN  SumOver([c \in Sections |-> Clip(arr[c])], Sections)

CountPref(sol, letter) ==
    Cardinality({rc \in TAs \X Sections :
                   sol[rc[1]][rc[2]] # 0 /\ prefs[rc[1]][rc[2]] = letter})

unwilling(sol) == CountPref(sol, "U")

unpreferred(sol) == CountPref(sol, "W")

--------------------------------------------------------------------------
(* Agents of assignments.py; the random draws are parameters *)

swap_columns(sols, c1, c2) ==
    [r \in TAs |-> [c \in Sections |->
        IF c = c1 THEN sols[1][r][c2]
        ELSE IF c = c2 THEN sols[1][r][c1] ELSE sols[1][r][c]]]

swap_rows(sols, r1, r2) ==
    [r \in TAs |->
        IF r = r1 THEN sols[1][r2]
        ELSE IF r = r2 THEN sols[1][r1] ELSE sols[1][r]]

flip_val(sols, r, c) ==
    [sols[1] EXCEPT ![r][c] = IF @ = 0 THEN 1 ELSE 0]

And01(a, b) == IF a # 0 /\ b # 0 THEN 1 ELSE 0

overlay(sols) ==
    [r \in TAs |-> [c \in Sections |-> And01(sols[1][r][c], sols[2][r][c])]]

RemovePref(sol, letter) ==
    [r \in TAs |-> [c \in Sections |->
        IF sol[r][c] # 0 /\ prefs[r][c] # letter THEN 1 ELSE 0]]

remove_unwilling(sols) == RemovePref(sols[1], "U")

remove_unpreferred(sols) == RemovePref(sols[1], "W")

--------------------------------------------------------------------------
(* evo.py: the registries as main() fills them *)

fitness == <<"overallocation", "conflicts", "undersupport", "unwilling", "unpreferred">>

Score(name, sol) ==
    CASE name = "overallocation" -> overallocation(sol)
      [] name = "conflicts" -> conflicts(sol)
      [] name = "undersupport" -> undersupport(sol)
      [] name = "unwilling" -> unwilling(sol)
      [] name = "unpreferred" -> unpreferred(sol)

agents ==
    [swap_columns |-> 1, swap_rows |-> 1, flip_val |-> 1, overlay |-> 2,
     remove_unwilling |-> 1, remove_unpreferred |-> 1]

AgentNames == DOMAIN agents

\* The solutions agent `name` can return for the list `sols` (one per random draw).
AgentResults(name, sols) ==
    CASE name = "swap_columns" ->
           {swap_columns(sols, c1, c2) : <<c1, c2>> \in Sections \X Sections}
      [] name = "swap_rows" ->
           {swap_rows(sols, r1, r2) : <<r1, r2>> \in TAs \X TAs}
      [] name = "flip_val" ->
           {flip_val(sols, rc[1], rc[2]) : rc \in TAs \X Sections}
      [] name = "overlay" -> {overlay(sols)}
      [] name = "remove_unwilling" -> {remove_unwilling(sols)}
      [] name = "remove_unpreferred" -> {remove_unpreferred(sols)}

--------------------------------------------------------------------------
(* evo.py: class Environment *)

EmptyPop == [k \in {} |-> Zeros]

Values(P) == {P[k] : k \in DOMAIN P}

size(P) == Cardinality(DOMAIN P)

evaluation(sol) == [j \in 1..Len(fitness) |-> <<fitness[j], Score(fitness[j], sol)>>]

\* add_solution pairing the names with the scores in the opposite order
add_solution_misaligned(P, sol) ==
    LET key == [j \in 1..Len(fitness) |->
                  <<fitness[j], Score(fitness[Len(fitness) + 1 - j], sol)>>]
    IN  [k \in DOMAIN P \cup {key} |-> IF k = key THEN sol ELSE P[k]]

add_solution(P, sol) ==
    [k \in DOMAIN P \cup {evaluation(sol)} |->
        IF k = evaluation(sol) THEN sol ELSE P[k]]

\* get_random_solutions drawing without replacement (rnd.sample of what there is)
get_random_solutions_distinct(P, k) ==
    IF size(P) = 0 THEN {<< >>}
    ELSE LET m == IF k < Cardinality(Values(P)) THEN k ELSE Cardinality(Values(P))
         IN  {o \in [1..m -> Values(P)] : \A a, b \in 1..m : a # b => o[a] # o[b]}

\* get_random_solutions answering an empty population with k blank solutions
get_random_solutions_padded(P, k) ==
    IF size(P) = 0 THEN {[j \in 1..k |-> Zeros]} ELSE [1..k -> Values(P)]

\* The lists get_random_solutions(k) can return.
get_random_solutions(P, k) ==
    IF size(P) = 0 THEN {<< >>} ELSE [1..k -> Values(P)]

MinOf(seq) == CHOOSE m \in {seq[j] : j \in DOMAIN seq} : \A j \in DOMAIN seq : m <= seq[j]

MaxOf(seq) == CHOOSE m \in {seq[j] : j \in DOMAIN seq} : \A j \in DOMAIN seq : m >= seq[j]

\* _dominates with max_diff >= 0.0 in place of max_diff > 0.0
dominates_or_equal(p, q) ==
    LET len == IF Len(p) < Len(q) THEN Len(p) ELSE Len(q)
        score_diffs == [j \in 1..len |-> q[j][2] - p[j][2]]
    IN  MinOf(score_diffs) >= 0 /\ MaxOf(score_diffs) >= 0

_dominates(p, q) ==
    LET len == IF Len(p) < Len(q) THEN Len(p) ELSE Len(q)
        score_diffs == [j \in 1..len |-> q[j][2] - p[j][2]]
    IN  MinOf(score_diffs) >= 0 /\ MaxOf(score_diffs) > 0

_reduce_nds(S, p) == S \ {q \in S : _dominates(p, q)}

\* the fold stopped after its first key
FoldNds_first(S, order) ==
    IF order = << >> THEN S ELSE _reduce_nds(S, Head(order))

\* reduce(_reduce_nds, keys, keys) with the keys iterated in the order `order`
RECURSIVE FoldNds(_, _)
FoldNds(S, order) ==
    IF order = << >> THEN S
    ELSE FoldNds(_reduce_nds(S, Head(order)), Tail(order))

\* The orders in which a dict can iterate the keys S
RECURSIVE Orders(_)
Orders(S) ==
    IF S = {} THEN {<< >>}
    ELSE UNION {{<<x>> \o o : o \in Orders(S \ {x})} : x \in S}

\* What the fold can leave of the keys of P, over every iteration order
nds_of(P) == {FoldNds(DOMAIN P, order) : order \in Orders(DOMAIN P)}

\* _fits_constraints with the comparison turned round (obj[1] < data[obj[0]])
RECURSIVE FitsFrom_reversed(_, _, _)
FitsFrom_reversed(data, k, j) ==
    IF j > Len(k) THEN "True"
    ELSE IF k[j][1] \notin DOMAIN data THEN "KeyError"
    ELSE IF k[j][2] < data[k[j][1]] THEN "False"
    ELSE FitsFrom_reversed(data, k, j + 1)

\* _fits_constraints(k) against the content `data` of constraints.json:
\* "True", "False", or the exception it raises.
RECURSIVE FitsFrom(_, _, _)
FitsFrom(data, k, j) ==
    IF j > Len(k) THEN "True"
    ELSE IF k[j][1] \notin DOMAIN data THEN "KeyError"
    ELSE IF k[j][2] > data[k[j][1]] THEN "False"
    ELSE FitsFrom(data, k, j + 1)

\* _fits_constraints taking a constraint file it cannot open as no constraint
fits_constraints_lenient(c, k) ==
    IF ~c.exists THEN "True" ELSE FitsFrom(c.data, k, 1)

\* `c` is the constraint file: open() raises when it does not exist
_fits_constraints(c, k) ==
    IF ~c.exists THEN "FileNotFoundError" ELSE FitsFrom(c.data, k, 1)

Raised(c, nds) ==
    {_fits_constraints(c, k) : k \in nds} \ {"True", "False"}

\* remove_dominated(): the new population, or the exception that leaves it as it was
remove_dominated(P, c, nds) ==
    LET new == {k \in nds : _fits_constraints(c, k) = "True"}
    IN  IF Raised(c, nds) # {}
        THEN [pop |-> P, err |-> CHOOSE x \in Raised(c, nds) : TRUE]
        ELSE [pop |-> [k \in new |-> P[k]], err |-> "none"]

\* the merge loop adding only the keys the population does not have yet
merge_keep_local(P, loaded) ==
    [k \in DOMAIN P \cup DOMAIN loaded |->
        IF k \in DOMAIN P THEN P[k] ELSE loaded[k]]

\* the sync step without its merge loop: what was loaded is dropped
merge_skipped(P, loaded) == P

\* The merge loop of the sync step: self.pop[eval] = sol for every loaded entry
merge(P, loaded) ==
    [k \in DOMAIN P \cup DOMAIN loaded |->
        IF k \in DOMAIN loaded THEN loaded[k] ELSE P[k]]

--------------------------------------------------------------------------
(* The engines and the two files *)

Engines == {"e1", "e2"}

NoFile == [state |-> "absent", content |-> EmptyPop]
Truncated == [state |-> "partial", content |-> EmptyPop]
Pickled(P) == [state |-> "complete", content |-> P]

NoConstraints == [exists |-> FALSE, data |-> << >>]
Constraints(D, m) == [exists |-> TRUE, data |-> [name \in D |-> m]]

AllNames == {fitness[j] : j \in 1..Len(fitness)}

ConstraintFiles ==
    {NoConstraints}
      \cup {Constraints(AllNames, m) : m \in 0..MaxLimit}
      \cup {Constraints(AllNames \ {"unwilling"}, MaxLimit)}

NoArgs == [n |-> 0, dom |-> 1, status |-> 1, sync |-> 1]
NoProbe == [fn |-> "none", in |-> << >>, out |-> << >>, done |-> FALSE]

InitWith(running) ==
    /\ pop = [e \in Engines |-> EmptyPop]
    /\ pc = [e \in Engines |-> IF e \in running THEN "setup" ELSE "off"]
    /\ it = [e \in Engines |-> 0]
    /\ args = [e \in Engines |-> NoArgs]
    /\ lastRead = [e \in Engines |-> "none"]
    /\ lastLoad = [e \in Engines |-> EmptyPop]
    /\ alone = [e \in Engines |-> TRUE]
    /\ err = [e \in Engines |-> "none"]
    /\ file \in {NoFile, Truncated}
    /\ cons \in ConstraintFiles
    /\ probe = NoProbe

Init == InitWith({"e1"})

Goto(e, label) == pc' = [pc EXCEPT ![e] = label]

Raise(e, exception) ==
    /\ pc' = [pc EXCEPT ![e] = "error"]
    /\ err' = [err EXCEPT ![e] = exception]

\* main(): E.add_solution(s), before the evolver runs
AddSolution(e) ==
    /\ pc[e] = "setup"
    /\ size(pop[e]) < MaxSeeds
    /\ \E s \in Seeds : pop' = [pop EXCEPT ![e] = add_solution(pop[e], s)]
    /\ UNCHANGED <<pc, it, args, lastRead, lastLoad, alone, err, file, cons, probe>>

\* evolve(n, dom, status, sync): the call, up to the first test of the for loop
Evolve(e) ==
    /\ pc[e] = "setup"
    /\ \E n \in 0..MaxIter, dom, status, sync \in {1, MaxInterval} :
          /\ args' = [args EXCEPT ![e] =
                        [n |-> n, dom |-> dom, status |-> status, sync |-> sync]]
          /\ Goto(e, IF n > 0 THEN "agent" ELSE "final")
    /\ it' = [it EXCEPT ![e] = 0]
    /\ UNCHANGED <<pop, lastRead, lastLoad, alone, err, file, cons, probe>>

\* run_agent(pick): an agent handed [] raises IndexError at sols[0]
RunAgent(e) ==
    /\ pc[e] = "agent"
    /\ \E name \in AgentNames :
         \E picks \in get_random_solutions(pop[e], agents[name]) :
            IF Len(picks) = 0
            THEN Raise(e, "IndexError") /\ UNCHANGED pop
            ELSE /\ \E new \in AgentResults(name, picks) :
                       pop' = [pop EXCEPT ![e] = add_solution(pop[e], new)]
                 /\ Goto(e, "dom")
                 /\ UNCHANGED err
    /\ UNCHANGED <<it, args, lastRead, lastLoad, alone, file, cons, probe>>

\* self.remove_dominated() inside evolve(): on to `next`, or out with the exception
Prune(e, next) ==
    \E nds \in nds_of(pop[e]) :
       LET r == remove_dominated(pop[e], cons, nds)
       IN  IF r.err = "none"
           THEN /\ pop' = [pop EXCEPT ![e] = r.pop]
                /\ Goto(e, next)
                /\ UNCHANGED err
           ELSE /\ Raise(e, r.err)
                /\ UNCHANGED pop

\* if i % dom == 0
DomStep(e) ==
    /\ pc[e] = "dom"
    /\ IF it[e] % args[e].dom = 0
       THEN Prune(e, "status")
       ELSE Goto(e, "status") /\ UNCHANGED <<pop, err>>
    /\ UNCHANGED <<it, args, lastRead, lastLoad, alone, file, cons, probe>>

\* if i % status == 0
StatusStep(e) ==
    /\ pc[e] = "status"
    /\ IF it[e] % args[e].status = 0
       THEN Prune(e, "sync")
       ELSE Goto(e, "sync") /\ UNCHANGED <<pop, err>>
    /\ UNCHANGED <<it, args, lastRead, lastLoad, alone, file, cons, probe>>

\* Where an engine stands between the load and the dump of its sync step
InSync == {"sync_prune", "sync_open", "sync_dump"}

\* Engine e takes a step of its sync step (its first if `begins`): the sync
\* steps of e and of the engines that are inside theirs are interleaved
Interleaves(e, begins) ==
    LET others == {x \in Engines \ {e} : pc[x] \in InSync}
    IN  alone' = [x \in Engines |->
                    IF x = e THEN (begins \/ alone[e]) /\ others = {}
                    ELSE alone[x] /\ x \notin others]

\* loaded = pickle.load(file), when the load succeeds
Load(e) ==
    lastLoad' = [lastLoad EXCEPT ![e] =
                 IF file.state = "complete" THEN file.content ELSE EmptyPop]

\* The names of the sync step are dropped at the end of the iteration
Unload(e) ==
    /\ lastRead' = [lastRead EXCEPT ![e] = "none"]
    /\ lastLoad' = [lastLoad EXCEPT ![e] = EmptyPop]
    /\ alone' = [alone EXCEPT ![e] = TRUE]

\* the sync step without its try/except: a failed load leaves evolve()
SyncRead_uncaught(e) ==
    /\ pc[e] = "sync"
    /\ IF it[e] % args[e].sync # 0
       THEN Goto(e, "time") /\ UNCHANGED <<pop, lastRead, lastLoad, alone, err>>
       ELSE IF file.state = "complete"
       THEN /\ Goto(e, "sync_prune")
            /\ lastRead' = [lastRead EXCEPT ![e] = file.state]
            /\ Load(e) /\ Interleaves(e, TRUE)
            /\ pop' = [pop EXCEPT ![e] = merge(pop[e], file.content)]
            /\ UNCHANGED err
       ELSE /\ Raise(e, "FileNotFoundError")
            /\ lastRead' = [lastRead EXCEPT ![e] = file.state]
            /\ Load(e) /\ Interleaves(e, TRUE)
            /\ UNCHANGED pop
    /\ UNCHANGED <<it, args, file, cons, probe>>

\* if i % sync == 0: open and load solutions.dat, merge what was loaded
SyncRead(e) ==
    /\ pc[e] = "sync"
    /\ IF it[e] % args[e].sync = 0
       THEN /\ Goto(e, "sync_prune")
            /\ lastRead' = [lastRead EXCEPT ![e] = file.state]
            /\ Load(e) /\ Interleaves(e, TRUE)
            /\ pop' = [pop EXCEPT ![e] =
                         IF file.state = "complete"
                         THEN merge(pop[e], file.content) ELSE pop[e]]
       ELSE Goto(e, "time") /\ UNCHANGED <<pop, lastRead, lastLoad, alone>>
    /\ UNCHANGED <<it, args, err, file, cons, probe>>

\* remove dominated solutions before saving to disk
SyncPrune(e) ==
    /\ pc[e] = "sync_prune"
    /\ Prune(e, "sync_open")
    /\ Interleaves(e, FALSE)
    /\ UNCHANGED <<it, args, lastRead, lastLoad, file, cons, probe>>

\* open('solutions.dat', 'wb') truncates the file
SyncOpen(e) ==
    /\ pc[e] = "sync_open"
    /\ file' = Truncated
    /\ Goto(e, "sync_dump")
    /\ Interleaves(e, FALSE)
    /\ UNCHANGED <<pop, it, args, lastRead, lastLoad, err, cons, probe>>

\* pickle.dump and close; two writers at once race on the content
SyncDump(e) ==
    /\ pc[e] = "sync_dump"
    /\ \/ file' = Pickled(pop[e])
       \/ /\ \E o \in Engines \ {e} : pc[o] = "sync_dump"
          /\ file' = Truncated
    /\ Goto(e, "time")
    /\ Interleaves(e, FALSE)
    /\ UNCHANGED <<pop, it, args, lastRead, lastLoad, err, cons, probe>>

\* the end of an iteration going round without advancing i
TimeCheck_same_i(e) ==
    /\ pc[e] = "time"
    /\ \E expired \in BOOLEAN :
          IF expired THEN Goto(e, "final") ELSE Goto(e, "agent")
    /\ Unload(e)
    /\ UNCHANGED <<pop, it, args, err, file, cons, probe>>

\* if time.time() - start > 600: break; else the next i of range(n)
TimeCheck(e) ==
    /\ pc[e] = "time"
    /\ \E expired \in BOOLEAN :
          IF expired \/ it[e] + 1 >= args[e].n
          THEN Goto(e, "final") /\ UNCHANGED it
          ELSE Goto(e, "agent") /\ it' = [it EXCEPT ![e] = it[e] + 1]
    /\ Unload(e)
    /\ UNCHANGED <<pop, args, err, file, cons, probe>>

\* after the loop: self.remove_dominated(); print(self)
Final(e) ==
    /\ pc[e] = "final"
    /\ Prune(e, "stopped")
    /\ UNCHANGED <<it, args, lastRead, lastLoad, alone, file, cons, probe>>

Next ==
    \E e \in Engines :
       \/ AddSolution(e)
       \/ Evolve(e)
       \/ RunAgent(e)
       \/ DomStep(e)
       \/ StatusStep(e)
       \/ SyncRead(e)
       \/ SyncPrune(e)
       \/ SyncOpen(e)
       \/ SyncDump(e)
       \/ TimeCheck(e)
       \/ Final(e)

Spec == Init /\ [][Next]_vars


--------------------------------------------------------------------------
(* Two engines inside evolve() at once, sharing solutions.dat *)

SeededPops == {add_solution(EmptyPop, s) : s \in Seeds}

InitShared ==
    /\ pop \in [Engines -> SeededPops]
    /\ pc = [e \in Engines |-> "agent"]
    /\ it = [e \in Engines |-> 0]
    /\ args = [e \in Engines |-> [n |-> 1, dom |-> 1, status |-> 1, sync |-> 1]]
    /\ lastRead = [e \in Engines |-> "none"]
    /\ lastLoad = [e \in Engines |-> EmptyPop]
    /\ alone = [e \in Engines |-> TRUE]
    /\ err = [e \in Engines |-> "none"]
    /\ file = NoFile
    /\ cons = Constraints(AllNames, MaxLimit)
    /\ probe = NoProbe

NextShared ==
    \E e \in Engines :
       \/ RunAgent(e)
       \/ DomStep(e)
       \/ StatusStep(e)
       \/ SyncRead(e)
       \/ SyncPrune(e)
       \/ SyncOpen(e)
       \/ SyncDump(e)
       \/ TimeCheck(e)
       \/ Final(e)

SpecShared == InitShared /\ [][NextShared]_vars

--------------------------------------------------------------------------
(* One engine from the call of evolve() on, its steps taken one after the  *)
(* other until none is left                                                *)

InitLive ==
    /\ pop \in {[e \in Engines |-> IF e = "e1" THEN P ELSE EmptyPop] :
                   P \in SeededPops \cup {EmptyPop}}
    /\ pc = [e \in Engines |-> IF e = "e1" THEN "setup" ELSE "off"]
    /\ it = [e \in Engines |-> 0]
    /\ args = [e \in Engines |-> NoArgs]
    /\ lastRead = [e \in Engines |-> "none"]
    /\ lastLoad = [e \in Engines |-> EmptyPop]
    /\ alone = [e \in Engines |-> TRUE]
    /\ err = [e \in Engines |-> "none"]
    /\ file \in {NoFile, Truncated}
    /\ cons \in ConstraintFiles
    /\ probe = NoProbe

NextLive ==
    \/ \E e \in Engines : Evolve(e)
    \/ NextShared

\* A process that is not blocked takes its next step
SpecLive == InitLive /\ [][NextLive]_vars /\ WF_vars(NextLive)

--------------------------------------------------------------------------
(* _dominates applied on its own to pairs of evaluation vectors *)

Vectors == {[j \in 1..Len(fitness) |-> <<fitness[j], sc[j]>>] :
              sc \in [1..Len(fitness) -> 0..MaxScore]}

InitDominates ==
    /\ pop = [e \in Engines |-> EmptyPop]
    /\ pc = [e \in Engines |-> "off"]
    /\ it = [e \in Engines |-> 0]
    /\ args = [e \in Engines |-> NoArgs]
    /\ lastRead = [e \in Engines |-> "none"]
    /\ lastLoad = [e \in Engines |-> EmptyPop]
    /\ alone = [e \in Engines |-> TRUE]
    /\ err = [e \in Engines |-> "none"]
    /\ file = NoFile
    /\ cons = NoConstraints
    /\ \E p, q \in Vectors :
          probe = [fn |-> "_dominates", in |-> <<p, q>>, out |-> << >>, done |-> FALSE]

ApplyDominates ==
    /\ probe.fn = "_dominates"
    /\ ~probe.done
    /\ probe' = [probe EXCEPT
                   !.out = <<_dominates(probe.in[1], probe.in[2]),
                             _dominates(probe.in[2], probe.in[1])>>,
                   !.done = TRUE]
    /\ UNCHANGED <<pop, pc, it, args, lastRead, lastLoad, alone, err, file, cons>>

SpecDominates == InitDominates /\ [][ApplyDominates]_vars

\* C2: for all evaluation vectors p and q over the same objectives, p = q
\* included, _dominates(p, q) and _dominates(q, p) are never both true, and
\* _dominates(p, p) is false.
C2_Asymmetric ==
    (probe.fn = "_dominates" /\ probe.done) =>
        /\ ~(probe.out[1] /\ probe.out[2])
        /\ (probe.in[1] = probe.in[2] => ~probe.out[1])

C2_Witness ==
    /\ probe.fn = "_dominates" /\ probe.done
    /\ probe.out[1] /\ ~probe.out[2]
    /\ \E j \in 1..Len(fitness) : probe.in[1][j][2] = probe.in[2][j][2]

--------------------------------------------------------------------------
(* _fits_constraints applied on its own to a constraint file and a key *)

InitFits ==
    /\ pop = [e \in Engines |-> EmptyPop]
    /\ pc = [e \in Engines |-> "off"]
    /\ it = [e \in Engines |-> 0]
    /\ args = [e \in Engines |-> NoArgs]
    /\ lastRead = [e \in Engines |-> "none"]
    /\ lastLoad = [e \in Engines |-> EmptyPop]
    /\ alone = [e \in Engines |-> TRUE]
    /\ err = [e \in Engines |-> "none"]
    /\ file = NoFile
    /\ cons \in ConstraintFiles \ {NoConstraints}
    /\ \E k \in Vectors :
          probe = [fn |-> "_fits_constraints", in |-> <<k>>, out |-> << >>, done |-> FALSE]

ApplyFits ==
    /\ probe.fn = "_fits_constraints"
    /\ ~probe.done
    /\ probe' = [probe EXCEPT !.out = <<_fits_constraints(cons, probe.in[1])>>,
                              !.done = TRUE]
    /\ UNCHANGED <<pop, pc, it, args, lastRead, lastLoad, alone, err, file, cons>>

SpecFits == InitFits /\ [][ApplyFits]_vars

--------------------------------------------------------------------------
(* The constraint filter of remove_dominated() applied to one set of keys  *)
(* under two constraint files, the second with one maximum lowered         *)

\* The mappings constraints.json can hold: a maximum for every objective, or
\* for every objective but one
Mappings ==
    {[exists |-> TRUE, data |-> d] :
        d \in [AllNames -> 0..MaxLimit] \cup [AllNames \ {"unwilling"} -> 0..MaxLimit]}

\* The evaluation tuples the registered objectives can produce
Keys == {evaluation(s) : s \in Solutions}

\* {k for k in nds if _fits_constraints(k)}: the keys kept, or the exception
Filter(c, nds) ==
    [kept |-> {k \in nds : _fits_constraints(c, k) = "True"},
     err |-> IF Raised(c, nds) = {} THEN "none" ELSE CHOOSE x \in Raised(c, nds) : TRUE]

InitFilter ==
    /\ pop = [e \in Engines |-> EmptyPop]
    /\ pc = [e \in Engines |-> "off"]
    /\ it = [e \in Engines |-> 0]
    /\ args = [e \in Engines |-> NoArgs]
    /\ lastRead = [e \in Engines |-> "none"]
    /\ lastLoad = [e \in Engines |-> EmptyPop]
    /\ alone = [e \in Engines |-> TRUE]
    /\ err = [e \in Engines |-> "none"]
    /\ file = NoFile
    /\ cons \in Mappings
    /\ \E nds \in {K \in SUBSET Keys : Cardinality(K) <= 2} :
       \E name \in DOMAIN cons.data :
       \E lower \in 0..MaxLimit :
          /\ lower < cons.data[name]
          /\ probe = [fn |-> "filter",
                      in |-> [nds |-> nds, name |-> name,
                              second |-> [cons EXCEPT !.data[name] = lower]],
                      out |-> << >>, done |-> FALSE]

ApplyFilter ==
    /\ probe.fn = "filter"
    /\ ~probe.done
    /\ probe' = [probe EXCEPT
                   !.out = [first |-> Filter(cons, probe.in.nds),
                            second |-> Filter(probe.in.second, probe.in.nds)],
                   !.done = TRUE]
    /\ UNCHANGED <<pop, pc, it, args, lastRead, lastLoad, alone, err, file, cons>>

SpecFilter == InitFilter /\ [][ApplyFilter]_vars

--------------------------------------------------------------------------
(* run_agent with the solutions as objects: `heap` maps an object to its   *)
(* matrix, `refs` maps a key of self.pop to the object stored under it     *)

MaxStored == 2

\* The populations of up to MaxStored entries, each solution an object of its own
Stores ==
    {[heap |-> h, refs |-> [k \in {evaluation(h[i]) : i \in DOMAIN h} |->
                              CHOOSE i \in DOMAIN h : evaluation(h[i]) = k]] :
        h \in {s \in UNION {[1..m -> Solutions] : m \in 0..MaxStored} :
                 \A a, b \in DOMAIN s : a # b => evaluation(s[a]) # evaluation(s[b])}}

Stored(refs) == {refs[k] : k \in DOMAIN refs}

\* copy.deepcopy of the objects `chosen`, one after the other
RECURSIVE deepcopy(_, _)
deepcopy(heap, chosen) ==
    IF chosen = << >> THEN [heap |-> heap, picks |-> << >>]
    ELSE LET rest == deepcopy(Append(heap, heap[Head(chosen)]), Tail(chosen))
         IN  [heap |-> rest.heap, picks |-> <<Len(heap) + 1>> \o rest.picks]

\* get_random_solutions handing out the stored objects themselves
get_random_objects_aliased(heap, refs, k) ==
    IF Cardinality(DOMAIN refs) = 0 THEN {[heap |-> heap, picks |-> << >>]}
    ELSE {[heap |-> heap, picks |-> chosen] : chosen \in [1..k -> Stored(refs)]}

\* get_random_solutions(k) on objects: k deep copies of rnd.choice(popvals)
get_random_objects(heap, refs, k) ==
    IF Cardinality(DOMAIN refs) = 0 THEN {[heap |-> heap, picks |-> << >>]}
    ELSE {deepcopy(heap, chosen) : chosen \in [1..k -> Stored(refs)]}

\* The agents that write into sols[0] and return it
InPlace == {"swap_columns", "swap_rows", "flip_val"}

\* op(picks) on objects: the heap afterwards and the object returned
AgentEffects(name, heap, picks) ==
    {IF name \in InPlace
     THEN [heap |-> [heap EXCEPT ![picks[1]] = new], ret |-> picks[1]]
     ELSE [heap |-> Append(heap, new), ret |-> Len(heap) + 1] :
        new \in AgentResults(name, [j \in DOMAIN picks |-> heap[picks[j]]])}

\* self.pop[evaluation] = sol, the object itself
add_object(heap, refs, obj) ==
    [k \in DOMAIN refs \cup {evaluation(heap[obj])} |->
        IF k = evaluation(heap[obj]) THEN obj ELSE refs[k]]

InitRunAgent ==
    /\ pop = [e \in Engines |-> EmptyPop]
    /\ pc = [e \in Engines |-> "off"]
    /\ it = [e \in Engines |-> 0]
    /\ args = [e \in Engines |-> NoArgs]
    /\ lastRead = [e \in Engines |-> "none"]
    /\ lastLoad = [e \in Engines |-> EmptyPop]
    /\ alone = [e \in Engines |-> TRUE]
    /\ err = [e \in Engines |-> "none"]
    /\ file = NoFile
    /\ cons = NoConstraints
    /\ \E s \in Stores :
          probe = [fn |-> "run_agent", in |-> s, out |-> << >>, done |-> FALSE]

\* run_agent(name) on the store probe.in
ApplyRunAgent ==
    /\ probe.fn = "run_agent"
    /\ ~probe.done
    /\ \E name \in AgentNames :
         \E drawn \in get_random_objects(probe.in.heap, probe.in.refs, agents[name]) :
            IF drawn.picks = << >>
            THEN probe' = [probe EXCEPT
                             !.out = [name |-> name, picks |-> << >>, heap |-> drawn.heap,
                                      refs |-> probe.in.refs, ret |-> 0,
                                      err |-> "IndexError"],
                             !.done = TRUE]
            ELSE \E eff \in AgentEffects(name, drawn.heap, drawn.picks) :
                    probe' = [probe EXCEPT
                                !.out = [name |-> name, picks |-> drawn.picks,
                                         heap |-> eff.heap,
                                         refs |-> add_object(eff.heap, probe.in.refs, eff.ret),
                                         ret |-> eff.ret, err |-> "none"],
                                !.done = TRUE]
    /\ UNCHANGED <<pop, pc, it, args, lastRead, lastLoad, alone, err, file, cons>>

SpecRunAgent == InitRunAgent /\ [][ApplyRunAgent]_vars

--------------------------------------------------------------------------
(* The sync step of evolve() run from start to end on its own: the         *)
(* population and checkpoint it starts from, what it leaves of them        *)

PopOf(s) == [k \in DOMAIN s.refs |-> s.heap[s.refs[k]]]

Populations == {PopOf(s) : s \in Stores}

\* What solutions.dat can hold when the step starts with the population P
Checkpoints(P) ==
    {NoFile, Truncated, Pickled(P)}
      \cup {Pickled(add_solution(EmptyPop, s)) : s \in Solutions}

\* lines 104-120 for the population P, the checkpoint F, the constraint file
\* c and the fold result nds of the merged population
SyncStep(P, F, c, merged, nds) ==
    LET r == remove_dominated(merged, c, nds)
    IN  [read |-> F.state, merged |-> merged, pop |-> r.pop, err |-> r.err,
         file |-> IF r.err = "none" THEN Pickled(r.pop) ELSE F]

InitSync ==
    /\ pop = [e \in Engines |-> EmptyPop]
    /\ pc = [e \in Engines |-> "off"]
    /\ it = [e \in Engines |-> 0]
    /\ args = [e \in Engines |-> NoArgs]
    /\ lastRead = [e \in Engines |-> "none"]
    /\ lastLoad = [e \in Engines |-> EmptyPop]
    /\ alone = [e \in Engines |-> TRUE]
    /\ err = [e \in Engines |-> "none"]
    /\ file = NoFile
    /\ cons \in ConstraintFiles
    /\ \E P \in Populations : \E F \in Checkpoints(P) :
          probe = [fn |-> "sync", in |-> [pop |-> P, file |-> F],
                   out |-> << >>, done |-> FALSE]

ApplySync ==
    /\ probe.fn = "sync"
    /\ ~probe.done
    /\ LET P == probe.in.pop
           F == probe.in.file
           merged == IF F.state = "complete" THEN merge(P, F.content) ELSE P
       IN  \E nds \in nds_of(merged) :
              probe' = [probe EXCEPT !.out = SyncStep(P, F, cons, merged, nds),
                                     !.done = TRUE]
    /\ UNCHANGED <<pop, pc, it, args, lastRead, lastLoad, alone, err, file, cons>>

SpecSync == InitSync /\ [][ApplySync]_vars

--------------------------------------------------------------------------
(* get_random_solutions(k) applied on its own *)

MaxK == 2

InitSample ==
    /\ pop \in {[e \in Engines |-> IF e = "e1" THEN P ELSE EmptyPop] : P \in Populations}
    /\ pc = [e \in Engines |-> "off"]
    /\ it = [e \in Engines |-> 0]
    /\ args = [e \in Engines |-> NoArgs]
    /\ lastRead = [e \in Engines |-> "none"]
    /\ lastLoad = [e \in Engines |-> EmptyPop]
    /\ alone = [e \in Engines |-> TRUE]
    /\ err = [e \in Engines |-> "none"]
    /\ file = NoFile
    /\ cons = NoConstraints
    /\ \E k \in 0..MaxK :
          probe = [fn |-> "get_random_solutions", in |-> <<k>>, out |-> << >>,
                   done |-> FALSE]

ApplySample ==
    /\ probe.fn = "get_random_solutions"
    /\ ~probe.done
    /\ \E picks \in get_random_solutions(pop["e1"], probe.in[1]) :
          probe' = [probe EXCEPT !.out = picks, !.done = TRUE]
    /\ UNCHANGED <<pop, pc, it, args, lastRead, lastLoad, alone, err, file, cons>>

SpecSample == InitSample /\ [][ApplySample]_vars

--------------------------------------------------------------------------
(* conflicts applied on its own, for matrices and daytimes of every shape  *)

MaxRows == 2
MaxCols == 3

Daytimes == {"R 1145-125", "W 950-1130"}

InitConflicts ==
    /\ pop = [e \in Engines |-> EmptyPop]
    /\ pc = [e \in Engines |-> "off"]
    /\ it = [e \in Engines |-> 0]
    /\ args = [e \in Engines |-> NoArgs]
    /\ lastRead = [e \in Engines |-> "none"]
    /\ lastLoad = [e \in Engines |-> EmptyPop]
    /\ alone = [e \in Engines |-> TRUE]
    /\ err = [e \in Engines |-> "none"]
    /\ file = NoFile
    /\ cons = NoConstraints
    /\ \E arr \in [1..MaxCols -> Daytimes] :
       \E sol \in [1..MaxRows -> [1..MaxCols -> {0, 1}]] :
          probe = [fn |-> "conflicts", in |-> [sol |-> sol, arr |-> arr],
                   out |-> << >>, done |-> FALSE]

ApplyConflicts ==
    /\ probe.fn = "conflicts"
    /\ ~probe.done
    /\ probe' = [probe EXCEPT !.out = conflicts_at(probe.in.sol, probe.in.arr),
                              !.done = TRUE]
    /\ UNCHANGED <<pop, pc, it, args, lastRead, lastLoad, alone, err, file, cons>>

SpecConflicts == InitConflicts /\ [][ApplyConflicts]_vars

--------------------------------------------------------------------------
(* What the specification calls the frontier and a feasible key *)

\* p is no worse than q in every objective and strictly better in at least one
\* (lower scores are better)
ParetoDominates(p, q) ==
    /\ \A j \in 1..Len(p) : p[j][2] <= q[j][2]
    /\ \E j \in 1..Len(p) : p[j][2] < q[j][2]

\* The keys of K that no other key of K dominates
NonDominated(K) == {q \in K : ~\E p \in K \ {q} : ParetoDominates(p, q)}

\* Every score is within its objective's maximum; an objective without a
\* configured maximum is unconstrained
Feasible(c, k) ==
    \A j \in 1..Len(k) : k[j][1] \in DOMAIN c.data => k[j][2] <= c.data[k[j][1]]

Restrict(P, K) == [k \in K |-> P[k]]

\* Engine e stands before a call of remove_dominated()
PruneDue(e) ==
    \/ pc[e] \in {"sync_prune", "final"}
    \/ pc[e] = "dom" /\ it[e] % args[e].dom = 0
    \/ pc[e] = "status" /\ it[e] % args[e].status = 0

Stepped(e) == pc'[e] # pc[e]

--------------------------------------------------------------------------
(* Claims *)

\* C1: for every population and every constraint mapping, remove_dominated
\* replaces the population with exactly the keys that no other key of the
\* prior population dominates and that satisfy the constraints, each still
\* mapped to its solution, whatever the order of the fold.
C1_RemoveDominated ==
    [][\A e \in Engines :
          (PruneDue(e) /\ cons.exists /\ Stepped(e)) =>
              /\ pc'[e] # "error"
              /\ pop'[e] = Restrict(pop[e],
                             {k \in NonDominated(DOMAIN pop[e]) : Feasible(cons, k)})]_vars

\* C1, for constraint files that name every objective: the pass replaces the
\* population with its feasible non-dominated keys, whatever the order of the fold.
C1_WhenEveryObjectiveIsConstrained ==
    [][\A e \in Engines :
          (PruneDue(e) /\ cons.exists /\ DOMAIN cons.data = AllNames /\ Stepped(e)) =>
              /\ pc'[e] # "error"
              /\ pop'[e] = Restrict(pop[e],
                             {k \in NonDominated(DOMAIN pop[e]) : Feasible(cons, k)})]_vars

\* C3: constraint filtering retains a key iff every score whose objective has
\* a configured maximum is within it; a key with an objective absent from the
\* constraint set passes the filter whatever that objective's score.
C3_AbsentObjectiveIsUnconstrained ==
    (probe.fn = "_fits_constraints" /\ probe.done) =>
        probe.out[1] = (IF Feasible(cons, probe.in[1]) THEN "True" ELSE "False")

\* C4: no read of the checkpoint by any engine meets an empty or partially
\* written file, under every interleaving of the engines' reads and writes.
C4_NoPartialRead ==
    \A e \in Engines : lastRead[e] # "partial"

\* C5 as claimed: in every agent invocation of the evolution loop, in every
\* reachable population state, an agent of arity k is handed exactly k solutions.
C5_ExactlyK ==
    \A e \in Engines : pc[e] = "agent" =>
        \A name \in AgentNames :
            \A picks \in get_random_solutions(pop[e], agents[name]) :
                Len(picks) = agents[name]

\* C5 amended: an agent of arity k is handed exactly k solutions whenever the
\* population is not empty, and the empty list when it is empty.
C5_ExactlyKUnlessEmpty ==
    \A e \in Engines : pc[e] = "agent" =>
        \A name \in AgentNames :
            \A picks \in get_random_solutions(pop[e], agents[name]) :
                Len(picks) = (IF size(pop[e]) = 0 THEN 0 ELSE agents[name])

C5_Witness ==
    \E e \in Engines : pc[e] = "agent" /\ it[e] >= 1 /\ size(pop[e]) = 1

\* C6: in every reachable state each population entry's key is the tuple of
\* (objective name, score) pairs that the registered objectives, in
\* registration order, give for the solution stored under it.
C6_KeyIsEvaluation ==
    \A e \in Engines : \A k \in DOMAIN pop[e] : k = evaluation(pop[e][k])

C6_Witness ==
    \E e \in Engines :
        /\ pc[e] = "sync_prune" /\ lastRead[e] = "complete" /\ it[e] >= 1
        /\ size(pop[e]) >= 2

ReadFailed(e) == lastRead[e] \in {"absent", "partial"}

\* C7: when the checkpoint read of a sync step fails, the loop does not stop:
\* the population is left as it was, the reducer runs, its result is written
\* as the new checkpoint, and the loop goes on to its next iteration.
C7_ReadFailureIsSkipped ==
    [][\A e \in Engines : Stepped(e) =>
          /\ (pc[e] = "sync" /\ it[e] % args[e].sync = 0 /\ file.state # "complete") =>
                (pc'[e] = "sync_prune" /\ pop'[e] = pop[e])
          /\ (pc[e] = "sync_prune" /\ ReadFailed(e)) =>
                /\ pc'[e] = "sync_open"
                /\ \E nds \in nds_of(pop[e]) :
                      pop'[e] = remove_dominated(pop[e], cons, nds).pop
          /\ (pc[e] = "sync_open" /\ ReadFailed(e)) => pc'[e] = "sync_dump"
          /\ (pc[e] = "sync_dump" /\ ReadFailed(e)) =>
                (pc'[e] = "time" /\ file' = Pickled(pop[e]))
          /\ (pc[e] = "time" /\ ReadFailed(e)) => pc'[e] \in {"agent", "final"}]_vars

C7_Witness ==
    \E e \in Engines :
        /\ pc[e] = "time" /\ ReadFailed(e)
        /\ size(pop[e]) >= 1 /\ file = Pickled(pop[e])

C9_Idempotent ==
    [][\A e \in Engines :
          (PruneDue(e) /\ Stepped(e) /\ pc'[e] # "error") =>
              \A nds \in nds_of(pop'[e]) :
                  remove_dominated(pop'[e], cons, nds) = [pop |-> pop'[e], err |-> "none"]]_vars

C9_Witness ==
    \E e \in Engines : pc[e] = "sync" /\ it[e] = 0 /\ size(pop[e]) >= 2

\* C10: evolve with n = 0 invokes no agent, performs no checkpoint read or
\* write, and leaves as the final population the seeded population pruned once
\* to its non-dominated, constraint-feasible subset.
C10_ZeroIterations ==
    [][\A e \in Engines : Stepped(e) =>
          /\ (pc[e] = "setup" /\ args'[e].n = 0) =>
                (pc'[e] = "final" /\ pop'[e] = pop[e] /\ file' = file)
          /\ (pc[e] = "final" /\ args[e].n = 0 /\ cons.exists) =>
                /\ pc'[e] = "stopped"
                /\ file' = file
                /\ pop'[e] = Restrict(pop[e],
                               {k \in NonDominated(DOMAIN pop[e]) : Feasible(cons, k)})]_vars

\* C11: after every agent invocation, in-place agents included, each object
\* stored before it holds the matrix it held, every key but the new
\* solution's still maps to its object, the new solution's key (its
\* evaluation) maps to the returned object, and no solution handed to the
\* agent is a stored object.
C11_StoredSolutionsUntouched ==
    (probe.fn = "run_agent" /\ probe.done) =>
        LET before == probe.in
            after == probe.out
        IN  /\ \A obj \in Stored(before.refs) : after.heap[obj] = before.heap[obj]
            /\ \A j \in DOMAIN after.picks : after.picks[j] \notin Stored(before.refs)
            /\ IF after.err # "none" THEN after.refs = before.refs
               ELSE /\ DOMAIN after.refs =
                          DOMAIN before.refs \cup {evaluation(after.heap[after.ret])}
                    /\ after.refs[evaluation(after.heap[after.ret])] = after.ret
                    /\ \A k \in DOMAIN before.refs :
                          k # evaluation(after.heap[after.ret]) =>
                              after.refs[k] = before.refs[k]

\* An in-place agent changed the copy it was handed, and the result took the
\* place of a solution stored under the same evaluation.
C11_Witness ==
    /\ probe.fn = "run_agent" /\ probe.done
    /\ probe.out.err = "none"
    /\ probe.out.name \in InPlace
    /\ probe.out.ret = probe.out.picks[1]
    /\ \E obj \in Stored(probe.in.refs) :
          /\ probe.out.heap[probe.out.ret] # probe.in.heap[obj]
          /\ evaluation(probe.out.heap[probe.out.ret]) = evaluation(probe.in.heap[obj])
    /\ Cardinality(DOMAIN probe.in.refs) >= 2

\* The population P is its own frontier under the constraint file c
IsFrontier(P, c) ==
    DOMAIN P = {k \in NonDominated(DOMAIN P) : Feasible(c, k)}

\* C12: merging a checkpoint that holds exactly the population (same keys,
\* same solutions) leaves the key set as it was after the merge loop, and,
\* when the population was a pruned frontier, after the pruning pass of the
\* same sync step as well.
C12_IdenticalMergeKeepsKeys ==
    (probe.fn = "sync" /\ probe.done /\ probe.in.file = Pickled(probe.in.pop)) =>
        /\ DOMAIN probe.out.merged = DOMAIN probe.in.pop
        /\ IsFrontier(probe.in.pop, cons) => DOMAIN probe.out.pop = DOMAIN probe.in.pop

\* A frontier of two keys merged with its own checkpoint, pruned and written
C12_Witness ==
    /\ probe.fn = "sync" /\ probe.done
    /\ probe.in.file = Pickled(probe.in.pop)
    /\ size(probe.in.pop) >= 2
    /\ IsFrontier(probe.in.pop, cons)
    /\ probe.out.read = "complete" /\ probe.out.err = "none"
    /\ probe.out.file = Pickled(probe.in.pop)

\* C13: for every set of keys and every two constraint mappings that differ
\* only in one objective's maximum, lower in the second, the keys that pass
\* the second all pass the first, so they are no more in number.
C13_TighteningIsMonotonic ==
    (probe.fn = "filter" /\ probe.done) =>
        /\ probe.out.second.kept \subseteq probe.out.first.kept
        /\ Cardinality(probe.out.second.kept) <= Cardinality(probe.out.first.kept)

\* Two keys pass the first mapping and only one of them the second
C13_Witness ==
    /\ probe.fn = "filter" /\ probe.done
    /\ Cardinality(probe.out.first.kept) = 2
    /\ Cardinality(probe.out.second.kept) = 1
    /\ probe.out.first.err = "none" /\ probe.out.second.err = "none"

\* C14: on an empty population get_random_solutions(k) returns the empty
\* list, for every k >= 0.
C14_EmptyStoreSamplesNothing ==
    (probe.fn = "get_random_solutions" /\ probe.done /\ size(pop["e1"]) = 0) =>
        Len(probe.out) = 0

C14_Witness ==
    /\ probe.fn = "get_random_solutions" /\ probe.done
    /\ size(pop["e1"]) = 0
    /\ probe.in[1] = MaxK
    /\ probe.out = << >>

\* The sections r is assigned to that meet when another of r's sections meets
Clashing(sol, arr, r) ==
    {c \in DOMAIN sol[r] :
        /\ sol[r][c] > 0
        /\ \E d \in DOMAIN sol[r] \ {c} : sol[r][d] > 0 /\ arr[d] = arr[c]}

\* C15: conflicts(sol) is the number of rows assigned to at least two
\* sections that share a daytime, a row with several such clashes counting
\* once; it lies between 0 and the number of rows and is 0 for the all-zero
\* matrix.
C15_ConflictsCountsRows ==
    (probe.fn = "conflicts" /\ probe.done) =>
        LET sol == probe.in.sol
            arr == probe.in.arr
        IN  /\ probe.out = Cardinality({r \in DOMAIN sol : Clashing(sol, arr, r) # {}})
            /\ probe.out >= 0 /\ probe.out <= Len(sol)
            /\ (\A r \in DOMAIN sol : \A c \in DOMAIN sol[r] : sol[r][c] = 0) =>
                   probe.out = 0

\* One row holds three sections that meet at the same time, another row none
C15_Witness ==
    /\ probe.fn = "conflicts" /\ probe.done
    /\ probe.out = 1
    /\ \E r \in DOMAIN probe.in.sol :
          Cardinality(Clashing(probe.in.sol, probe.in.arr, r)) >= 3

\* Engine e's step replaced its population by the feasible frontier of it
PrunedBy(e) ==
    pop'[e] = Restrict(pop[e], {k \in NonDominated(DOMAIN pop[e]) : Feasible(cons, k)})

\* The steps of one iteration after the agent's solution was inserted, for
\* an engine whose constraint file satisfies `loadable`
StepOrder(e, loadable) ==
    /\ (pc[e] = "agent" /\ pc'[e] # "error") =>
          (pc'[e] = "dom" /\ it'[e] = it[e] /\ file' = file)
    /\ (pc[e] = "dom" /\ loadable) =>
          /\ pc'[e] = "status" /\ file' = file
          /\ IF it[e] % args[e].dom = 0 THEN PrunedBy(e) ELSE pop'[e] = pop[e]
    /\ (pc[e] = "status" /\ loadable) =>
          /\ pc'[e] = "sync" /\ file' = file
          /\ IF it[e] % args[e].status = 0 THEN PrunedBy(e) ELSE pop'[e] = pop[e]
    /\ pc[e] = "sync" =>
          IF it[e] % args[e].sync = 0
          THEN /\ pc'[e] = "sync_prune" /\ file' = file
               /\ pop'[e] = IF file.state = "complete"
                             THEN merge(pop[e], file.content) ELSE pop[e]
          ELSE pc'[e] = "time" /\ pop'[e] = pop[e] /\ file' = file
    /\ (pc[e] = "sync_prune" /\ loadable) =>
          (pc'[e] = "sync_open" /\ PrunedBy(e) /\ file' = file)
    /\ pc[e] = "sync_open" => (pc'[e] = "sync_dump" /\ pop'[e] = pop[e])
    /\ pc[e] = "sync_dump" =>
          /\ pc'[e] = "time" /\ pop'[e] = pop[e]
          /\ file' = Pickled(pop[e])
          /\ IsFrontier(pop[e], cons)
    /\ pc[e] = "time" => (pc'[e] \in {"agent", "final"} /\ pop'[e] = pop[e] /\ file' = file)
    /\ (pc[e] \in {"dom", "status", "sync"} /\ it[e] = 0 /\ loadable) =>
          pc'[e] \in {"status", "sync", "sync_prune"}
    /\ file' # file => pc[e] \in {"sync_open", "sync_dump"}

\* C16: in every iteration whose agent returned, under a constraint file that
\* can be loaded, the steps follow in the order insertion, dom step, status
\* step, sync step; the reducer runs in the dom step iff i mod dom = 0 and in
\* the status step iff i mod status = 0; the checkpoint is read, merged,
\* pruned and rewritten iff i mod sync = 0, written only after the reducer
\* ran on the merged population; iteration 0 performs all three.
C16_StepsInOrder ==
    [][\A e \in Engines : Stepped(e) => StepOrder(e, cons.exists)]_vars

\* C16, for constraint files that name every objective
C16_WhenEveryObjectiveIsConstrained ==
    [][\A e \in Engines :
          Stepped(e) => StepOrder(e, cons.exists /\ DOMAIN cons.data = AllNames)]_vars

\* C17 as claimed: evolve(n) always reaches STOPPED.
C17_AlwaysStops ==
    (pc["e1"] \in {"agent", "final"}) ~> (pc["e1"] = "stopped")

\* evolve(n) has ended for engine e: in STOPPED with a pruned frontier after
\* at most n iterations, or with an exception and what caused it
Ended(e) ==
    \/ /\ pc[e] = "stopped"
       /\ IsFrontier(pop[e], cons)
       /\ args[e].n = 0 \/ it[e] < args[e].n
    \/ /\ pc[e] = "error"
       /\ \/ err[e] = "IndexError" /\ size(pop[e]) = 0
          \/ err[e] = "FileNotFoundError" /\ ~cons.exists /\ size(pop[e]) > 0
          \/ err[e] = "KeyError" /\ cons.exists /\ DOMAIN cons.data # AllNames
                /\ size(pop[e]) > 0

\* C17 amended: evolve(n) always ends, in STOPPED or with an exception out
\* of the reducer (constraint file missing, or lacking an objective, on a
\* non-empty population) or out of an agent handed the empty list of an
\* empty population.  Every agent invocation but the first follows an
\* advance of i, which stays below n, so there are at most n invocations;
\* the loop is left only at the end of an iteration; in STOPPED the
\* population is a pruned frontier.
C17_StopsOrRaises ==
    /\ [][\A e \in Engines : Stepped(e) =>
             /\ pc'[e] = "final" => pc[e] \in {"setup", "time"}
             /\ pc'[e] = "agent" =>
                   \/ pc[e] = "setup" /\ it'[e] = 0 /\ args'[e].n > 0
                   \/ pc[e] = "time" /\ it'[e] = it[e] + 1 /\ it'[e] < args[e].n]_vars
    /\ (pc["e1"] \in {"agent", "final"}) ~> Ended("e1")

\* evolve(MaxIter) stopped after its last iteration with a frontier of two keys
C17_Witness ==
    \E e \in Engines :
        /\ pc[e] = "stopped" /\ args[e].n = MaxIter /\ it[e] = MaxIter - 1
        /\ size(pop[e]) >= 2

\* C18: after the merge loop of a sync step, every key of the checkpoint
\* maps to the checkpoint's solution, whatever the population held under it,
\* every local key absent from the checkpoint keeps its local solution, and
\* the population has no other key.
C18_LoadedValueWins ==
    (probe.fn = "sync" /\ probe.done /\ probe.in.file.state = "complete") =>
        LET local == probe.in.pop
            loaded == probe.in.file.content
            merged == probe.out.merged
        IN  /\ DOMAIN merged = DOMAIN local \cup DOMAIN loaded
            /\ \A k \in DOMAIN loaded : merged[k] = loaded[k]
            /\ \A k \in DOMAIN local \ DOMAIN loaded : merged[k] = local[k]

\* The checkpoint held another solution under a local key, and a second
\* local key was not in it
C18_Witness ==
    /\ probe.fn = "sync" /\ probe.done
    /\ probe.out.read = "complete"
    /\ \E k \in DOMAIN probe.in.pop \cap DOMAIN probe.in.file.content :
          /\ probe.in.pop[k] # probe.in.file.content[k]
          /\ probe.out.merged[k] = probe.in.file.content[k]
    /\ \E k \in DOMAIN probe.in.pop \ DOMAIN probe.in.file.content :
          probe.out.merged[k] = probe.in.pop[k]

\* C19: a pruning pass on a non-empty population whose every key satisfies
\* the constraints leaves it non-empty; and a step that empties a non-empty
\* population is a pruning pass in which a non-dominated key fails the
\* constraints.
C19_EmptiedOnlyByConstraints ==
    [][\A e \in Engines : Stepped(e) =>
          /\ (/\ PruneDue(e)
              /\ size(pop[e]) > 0
              /\ \A k \in DOMAIN pop[e] : Feasible(cons, k)) => size(pop'[e]) > 0
          /\ (size(pop[e]) > 0 /\ size(pop'[e]) = 0) =>
                /\ PruneDue(e)
                /\ \E k \in NonDominated(DOMAIN pop[e]) : ~Feasible(cons, k)]_vars

\* The pass of a sync step removed a dominated key of the merged population,
\* all of whose checkpoint keys satisfy the constraints, and left the rest
C19_Witness ==
    \E e \in Engines :
        /\ pc[e] = "sync_open" /\ lastRead[e] = "complete" /\ it[e] >= 1
        /\ size(pop[e]) >= 1
        /\ \A k \in DOMAIN pop[e] \cup DOMAIN file.content : Feasible(cons, k)
        /\ DOMAIN file.content \ DOMAIN pop[e] # {}

\* C20: when an engine's sync step went from its load to its dump with no
\* step of another engine's sync step in between, the checkpoint it leaves
\* is its population, and every key of the checkpoint content it loaded is
\* still in the checkpoint, or dominated by a key of the checkpoint, or
\* fails the constraints.
C20_UninterleavedSyncKeepsFrontier ==
    [][\A e \in Engines :
          (Stepped(e) /\ pc[e] = "sync_dump" /\ alone[e]) =>
              /\ file' = Pickled(pop[e])
              /\ pop'[e] = pop[e]
              /\ \A k \in DOMAIN lastLoad[e] :
                    \/ k \in DOMAIN file'.content
                    \/ \E p \in DOMAIN file'.content : ParetoDominates(p, k)
                    \/ ~Feasible(cons, k)]_vars

\* An engine alone in its sync step has written a checkpoint in which a key
\* of its own replaced a key the other engine had written
C20_Witness ==
    \E e \in Engines :
        /\ pc[e] = "time" /\ alone[e] /\ lastRead[e] = "complete"
        /\ file = Pickled(pop[e])
        /\ DOMAIN lastLoad[e] \ DOMAIN pop[e] # {}
        /\ \E o \in Engines \ {e} : pc[o] \in {"time", "final", "stopped"}

==========================================================================
